---- MODULE Spec2Model ----
(***************************************************************************)
(* Model of the whiteboard-ai backend: the stored records, the report     *)
(* synthesis endpoint generate_report (routers/report.py) with the        *)
(* clusterer group_nodes_by_relevance it calls, and the endpoints that    *)
(* write subjects, nodes, connections and the zoom scale.                 *)
(*                                                                         *)
(* Texts are sequences of tokens (a token is a TLA+ string).  Node objects  *)
(* inside clusters are represented by their id.                            *)
(***************************************************************************)
EXTENDS Integers, Sequences, FiniteSets, TLC

VARIABLES
  whiteboards,   \* the ids of the rows of the whiteboards table
  subjects,      \* the rows of the subjects table
  nodes,         \* the rows of the nodes table
  connections,   \* the rows of the connections table
  reports,       \* the rows of the reports table, in insertion order
  pc,            \* where the generate_report request in progress stands
  rq,            \* the local variables of generate_report
  pending,       \* the generation call in flight (NoCall when there is none)
  calls,         \* what the request in progress has done so far, in order
  resp,          \* the response of the request once it has ended
  gn_nodes,      \* clusterer alone: the node list passed in
  gn_conns,      \* clusterer alone: the stored connections
  gn_result,     \* clusterer alone: what the last call returned
  parked,        \* the requests in progress in other threads, each with its own locals
  seq,           \* the last value drawn from the id sequence of each table
  scale          \* the zoom scale of each whiteboard

vars == <<whiteboards, subjects, nodes, connections, reports, pc, rq, pending, calls, resp,
          gn_nodes, gn_conns, gn_result, parked, seq, scale>>
dbvars == <<whiteboards, subjects, nodes, connections, reports>>
rqvars == <<pc, rq, pending, calls, resp>>
gnvars == <<gn_nodes, gn_conns, gn_result>>

\* ---------------------------------------------------------- zoom scales
\* a scale is a float; the model counts it in tenths (1.0 is 10, a step of 0.1 is 1,
\* without the rounding of the float sum) and keeps the one float that orders with
\* no other, NaN, written as a number no request of the model uses.  An optional
\* float is a sequence: <<>> for None (NULL in the table), <<v>> for the value v.
DefaultScale == 10
MinScale == 5
MaxScale == 20
NaN == -1
NullScale == <<>>

\* a < b on floats: false as soon as one side is NaN
Less(a, b) == a # NaN /\ b # NaN /\ a < b

\* a + d on floats
Plus(a, d) == IF a = NaN THEN NaN ELSE a + d

\* Python's min(a, b) and max(a, b): the first argument unless the second is
\* smaller (larger)
py_min(a, b) == IF Less(b, a) THEN b ELSE a
py_max(a, b) == IF Less(a, b) THEN b ELSE a

\* ------------------------------------------------------------------ bounds
\* node ids range over 1..MaxNodes
MaxNodes == 3
\* at most this many nodes are created through the API
MaxStored == 2
\* the clusterer alone is run on at most this many connections
MaxConns == 2
\* at most this many whiteboards are created
MaxWhiteboards == 2
\* no request is taken up once this many reports are stored
MaxReports == 1

\* ------------------------------------------------------------- basic values
\* the Python None, where a text may stand: a value no text is equal to
None == <<"None object">>

NodeIds == 1..MaxNodes

\* the local variables of generate_report before it has assigned any
NoLocals ==
  [whiteboard_id |-> 0, introduction |-> None, node_groups |-> <<>>, sections |-> <<>>,
   report_body |-> None, conclusion |-> None]

\* no generation call is in flight
NoCall == [fn |-> "none", text |-> <<>>]

\* an HTTP response: 200 with the new report, or the status and detail of the error
Response(status, detail) == [status |-> status, detail |-> detail]

\* no response has been sent yet
NoResp == Response(0, "")

\* models/connection.py: ConnectionType
ConnectionType == {"main_connection", "sub_connection"}

\* a row of the connections table (its own id is irrelevant to every reader modelled)
Connection == [source_node_id : NodeIds, target_node_id : NodeIds, type_of_connection : ConnectionType]

\* the sequences that enumerate the set S once each, in any order
Orderings(S) == {f \in [1..Cardinality(S) -> S] : \A i, j \in 1..Cardinality(S) : f[i] = f[j] => i = j}

\* the elements of the set S as a sequence, in the order in which `order` lists them
\* (Python iterates a set in hash-table order: some order fixed by the build)
IterSet(S, order) == SelectSeq(order, LAMBDA x : x \in S)

\* ---------------------------------------------------------------- clusterer
\* Node.connections: the connections whose source is the node
NodeConnections(node_id, conns) == {c \in conns : c.source_node_id = node_id}

SeqToSet(s) == {s[i] : i \in DOMAIN s}

\* adjacency_list with line 106 left out: a connection is followed from its source only
adjacency_list_directed(node_list, conns) ==
  LET seen == UNION {NodeConnections(n, conns) : n \in SeqToSet(node_list)}
  IN [i \in NodeIds |-> {c.target_node_id : c \in {d \in seen : d.source_node_id = i}}]

\* adjacency_list with line 105 left out: a connection is followed from its target only
adjacency_list_backward(node_list, conns) ==
  LET seen == UNION {NodeConnections(n, conns) : n \in SeqToSet(node_list)}
  IN [i \in NodeIds |-> {c.source_node_id : c \in {d \in seen : d.target_node_id = i}}]

\* report.py 100-106: the adjacency mapping built from the connections of the listed nodes
adjacency_list(node_list, conns) ==
  LET seen == UNION {NodeConnections(n, conns) : n \in SeqToSet(node_list)}
  IN [i \in NodeIds |->
        {c.target_node_id : c \in {d \in seen : d.source_node_id = i}}
        \cup {c.source_node_id : c \in {d \in seen : d.target_node_id = i}}]

RECURSIVE dfs(_, _, _, _, _)
RECURSIVE dfs_neighbors(_, _, _, _, _)
\* dfs that appends a node it has visited before once more (and does not descend again)
dfs_append_visited(node_id, st, node_map, adj, order) ==
  IF st.raised THEN st
  ELSE IF node_id \in st.visited THEN [st EXCEPT !.group = Append(@, node_id)]
  ELSE IF node_id \notin node_map
       THEN [st EXCEPT !.visited = @ \cup {node_id}, !.raised = TRUE]
       ELSE dfs_neighbors(IterSet(adj[node_id], order),
                          [st EXCEPT !.visited = @ \cup {node_id}, !.group = Append(@, node_id)],
                          node_map, adj, order)

\* report.py 111-124: st = [visited, group, raised]; raised models the KeyError of node_map[node_id]
dfs(node_id, st, node_map, adj, order) ==
  IF st.raised \/ node_id \in st.visited THEN st
  ELSE IF node_id \notin node_map
       THEN [st EXCEPT !.visited = @ \cup {node_id}, !.raised = TRUE]
       ELSE dfs_neighbors(IterSet(adj[node_id], order),
                          [st EXCEPT !.visited = @ \cup {node_id}, !.group = Append(@, node_id)],
                          node_map, adj, order)

\* dfs_neighbors that stops after the first neighbour
dfs_neighbors_first_only(neighbors, st, node_map, adj, order) ==
  IF neighbors = <<>> \/ st.raised THEN st
  ELSE dfs(Head(neighbors), st, node_map, adj, order)

\* report.py 123-124: the loop over the neighbours
dfs_neighbors(neighbors, st, node_map, adj, order) ==
  IF neighbors = <<>> \/ st.raised THEN st
  ELSE dfs_neighbors(Tail(neighbors), dfs(Head(neighbors), st, node_map, adj, order), node_map, adj, order)

RECURSIVE group_loop_no_skip(_, _, _, _, _)
\* group_loop with the test of line 128 left out: a group is opened for every node
group_loop_no_skip(rest, acc, node_map, adj, order) ==
  IF rest = <<>> \/ acc.raised THEN acc
  ELSE LET st == dfs(Head(rest), [visited |-> acc.visited, group |-> <<>>, raised |-> FALSE],
                     node_map, adj, order)
       IN group_loop_no_skip(Tail(rest),
                             [visited |-> st.visited,
                              groups |-> IF st.raised THEN acc.groups ELSE Append(acc.groups, st.group),
                              raised |-> st.raised],
                             node_map, adj, order)

RECURSIVE group_loop_prepend(_, _, _, _, _)
\* group_loop that puts each new group in front of the groups found before
group_loop_prepend(rest, acc, node_map, adj, order) ==
  IF rest = <<>> \/ acc.raised THEN acc
  ELSE IF Head(rest) \in acc.visited
       THEN group_loop_prepend(Tail(rest), acc, node_map, adj, order)
       ELSE LET st == dfs(Head(rest), [visited |-> acc.visited, group |-> <<>>, raised |-> FALSE],
                          node_map, adj, order)
            IN group_loop_prepend(Tail(rest),
                          [visited |-> st.visited,
                           groups |-> IF st.raised THEN acc.groups ELSE <<st.group>> \o acc.groups,
                           raised |-> st.raised],
                          node_map, adj, order)

RECURSIVE group_loop(_, _, _, _, _)
\* report.py 127-131: the loop over the nodes; acc = [visited, groups, raised]
group_loop(rest, acc, node_map, adj, order) ==
  IF rest = <<>> \/ acc.raised THEN acc
  ELSE IF Head(rest) \in acc.visited
       THEN group_loop(Tail(rest), acc, node_map, adj, order)
       ELSE LET st == dfs(Head(rest), [visited |-> acc.visited, group |-> <<>>, raised |-> FALSE],
                          node_map, adj, order)
            IN group_loop(Tail(rest),
                          [visited |-> st.visited,
                           groups |-> IF st.raised THEN acc.groups ELSE Append(acc.groups, st.group),
                           raised |-> st.raised],
                          node_map, adj, order)

\* report.py 83-133: the result is the list of groups, or the KeyError the call raises
group_nodes_by_relevance(node_list, conns, order) ==
  LET acc == group_loop(node_list, [visited |-> {}, groups |-> <<>>, raised |-> FALSE],
                        SeqToSet(node_list), adjacency_list(node_list, conns), order)
  IN IF acc.raised THEN [status |-> "KeyError", groups |-> <<>>]
     ELSE [status |-> "ok", groups |-> acc.groups]

\* ------------------------------------------------- the clusterer run alone
RECURSIVE SubsetsUpTo(_, _)
\* the subsets of S with at most k elements
SubsetsUpTo(S, k) ==
  IF k = 0 THEN {{}}
  ELSE LET smaller == SubsetsUpTo(S, k - 1)
       IN smaller \cup {T \cup {x} : T \in smaller, x \in S}

\* the orders in which the set adjacency_list[node_id] may be iterated (report.py 123):
\* by increasing id, as CPython stores small integers, and the reverse order
SetOrders == {[i \in NodeIds |-> i], [i \in NodeIds |-> MaxNodes + 1 - i]}

\* the node lists a query can return: distinct ids, in any order
NodeLists == UNION {Orderings(T) : T \in SUBSET NodeIds}

\* what connect_node lets the connections table hold (node.py 158-170):
\* no self-connection, one connection per (source, target)
Storable(conns) ==
  /\ \A c \in conns : c.source_node_id # c.target_node_id
  /\ \A c, d \in conns :
       (c.source_node_id = d.source_node_id /\ c.target_node_id = d.target_node_id) => c = d

NotRun == [status |-> "not run", groups |-> <<>>]

InitCluster ==
  /\ gn_nodes \in NodeLists
  /\ gn_conns \in {cs \in SubsetsUpTo(Connection, MaxConns) : Storable(cs)}
  /\ gn_result = NotRun
  /\ whiteboards = {} /\ subjects = {} /\ nodes = {} /\ connections = {} /\ reports = <<>>
  /\ pc = "idle" /\ rq = NoLocals /\ pending = NoCall /\ calls = <<>> /\ resp = NoResp
  /\ parked = <<>> /\ seq = [nodes |-> 0, subjects |-> 0, connections |-> 0]
  /\ scale = [w \in whiteboards |-> <<DefaultScale>>]

\* one call of group_nodes_by_relevance(gn_nodes), under some set-iteration order
Group ==
  /\ \E order \in SetOrders :
        gn_result' = group_nodes_by_relevance(gn_nodes, gn_conns, order)
  /\ UNCHANGED <<gn_nodes, gn_conns, dbvars, rqvars, parked, seq, scale>>

NextCluster == Group

SpecCluster == InitCluster /\ [][NextCluster]_vars

\* ------------------------------------------------------------------- texts
\* Python truthiness of an Optional[str]: neither None nor ""
Truthy(x) == x # None /\ x # <<>>

\* how an f-string renders a value: None is rendered as the text None
Fmt(x) == IF x = None THEN <<"None">> ELSE x

RECURSIVE Join(_, _)
\* sep.join(texts), for texts none of which is None
Join(texts, sep) ==
  IF texts = <<>> THEN <<>>
  ELSE IF Len(texts) = 1 THEN texts[1]
  ELSE texts[1] \o sep \o Join(Tail(texts), sep)

\* f"{x.name}: {x.summary}"
NameSummaryLine(x) == Fmt(x.name) \o <<": ">> \o Fmt(x.summary)

RECURSIVE SummaryLines_unfiltered(_)
\* SummaryLines without the test "if x.summary": a line for every row
SummaryLines_unfiltered(rows) ==
  IF rows = <<>> THEN <<>>
  ELSE <<NameSummaryLine(Head(rows))>> \o SummaryLines_unfiltered(Tail(rows))

RECURSIVE SummaryLines(_)
\* [f"{x.name}: {x.summary}" for x in rows if x.summary]
SummaryLines(rows) ==
  IF rows = <<>> THEN <<>>
  ELSE IF Truthy(Head(rows).summary)
       THEN <<NameSummaryLine(Head(rows))>> \o SummaryLines(Tail(rows))
       ELSE SummaryLines(Tail(rows))

\* ------------------------------------------------------------ stored rows
WhiteboardIds == 1..MaxWhiteboards

\* the row of the nodes table with the given id
NodeById(id) == CHOOSE n \in nodes : n.id = id

\* the rows of a set, as the list a query returns them in, by increasing id
RECURSIVE RowsById(_)
RowsById(rows) ==
  IF rows = {} THEN <<>>
  ELSE LET first == CHOOSE r \in rows : \A q \in rows : r.id <= q.id
       IN <<first>> \o RowsById(rows \ {first})

\* a group of node ids as the list of their rows
GroupRows(group) == [i \in DOMAIN group |-> NodeById(group[i])]

\* --------------------------------------------------- the other endpoints
\* alembic 44b23b3da24d: whiteboard 1 is seeded; every table else is empty
Init ==
  /\ whiteboards = {1}
  /\ subjects = {} /\ nodes = {} /\ connections = {} /\ reports = <<>>
  /\ pc = "idle" /\ rq = NoLocals /\ pending = NoCall /\ calls = <<>> /\ resp = NoResp
  /\ gn_nodes = <<>> /\ gn_conns = {} /\ gn_result = NotRun
  /\ parked = <<>> /\ seq = [nodes |-> 0, subjects |-> 0, connections |-> 0]
  /\ scale = [w \in whiteboards |-> <<DefaultScale>>]

\* whiteboard.py 10-29
create_whiteboard ==
  /\ pc = "idle"
  /\ Cardinality(whiteboards) < MaxWhiteboards
  /\ whiteboards' = whiteboards \cup {Cardinality(whiteboards) + 1}
  /\ scale' = [w \in whiteboards' |-> IF w \in whiteboards THEN scale[w] ELSE <<DefaultScale>>]
  /\ UNCHANGED <<subjects, nodes, connections, reports, rqvars, gnvars, parked, seq>>

\* at most this many subjects are created
MaxSubjects == 2

\* subject.py 16-52: one subject per whiteboard; the summary is optional; the id
\* comes from the sequence of the table
create_subject(w, summary) ==
  /\ pc = "idle"
  /\ w \in whiteboards
  /\ seq.subjects < MaxSubjects
  /\ ~ \E x \in subjects : x.whiteboard_id = w
  /\ subjects' = subjects \cup
        {[id |-> seq.subjects + 1, whiteboard_id |-> w,
          name |-> <<"subject" \o ToString(w)>>, summary |-> summary]}
  /\ seq' = [seq EXCEPT !.subjects = @ + 1]
  /\ UNCHANGED <<whiteboards, nodes, connections, reports, rqvars, gnvars, parked, scale>>

\* node.py 13-51: the new node has no summary yet; the id comes from the sequence
\* of the table
create_node(w) ==
  /\ pc = "idle"
  /\ w \in whiteboards
  /\ Cardinality(nodes) < MaxStored
  /\ seq.nodes < MaxNodes
  /\ nodes' = nodes \cup
        {[id |-> seq.nodes + 1, whiteboard_id |-> w,
          name |-> <<"node" \o ToString(seq.nodes + 1)>>, summary |-> None]}
  /\ seq' = [seq EXCEPT !.nodes = @ + 1]
  /\ UNCHANGED <<whiteboards, subjects, connections, reports, rqvars, gnvars, parked, scale>>

\* generate_node_summary with the summary stored and the name left as it was
generate_node_summary_summary_only(node_id) ==
  /\ pc = "idle"
  /\ \E n \in nodes :
       /\ n.id = node_id
       /\ nodes' = (nodes \ {n}) \cup {[n EXCEPT !.summary = <<"summary" \o ToString(node_id)>>]}
  /\ UNCHANGED <<whiteboards, subjects, connections, reports, rqvars, gnvars, parked, seq, scale>>

\* node.py 317-363, when the LLM answers: summary and name are set together
\* (the answer for a node is always the same text)
generate_node_summary(node_id) ==
  /\ pc = "idle"
  /\ \E n \in nodes :
       /\ n.id = node_id
       /\ nodes' = (nodes \ {n}) \cup
            {[n EXCEPT !.summary = <<"summary" \o ToString(node_id)>>,
                       !.name = <<"title" \o ToString(node_id)>>]}
  /\ UNCHANGED <<whiteboards, subjects, connections, reports, rqvars, gnvars, parked, seq, scale>>

\* connect_node without the tests for a self-connection and for an existing connection
connect_node_unchecked(node_id, target_node_id, type_of_connection) ==
  /\ pc = "idle"
  /\ \E n \in nodes : n.id = node_id
  /\ \E n \in nodes : n.id = target_node_id
  /\ connections' = connections \cup
        {[source_node_id |-> node_id, target_node_id |-> target_node_id,
          type_of_connection |-> type_of_connection]}
  /\ UNCHANGED <<whiteboards, subjects, nodes, reports, rqvars, gnvars, parked, seq, scale>>

\* node.py 123-191: both nodes exist, no self-connection, no second connection
\* for the same (source, target); the whiteboards of the two nodes are not compared
connect_node(node_id, target_node_id, type_of_connection) ==
  /\ pc = "idle"
  /\ \E n \in nodes : n.id = node_id
  /\ \E n \in nodes : n.id = target_node_id
  /\ node_id # target_node_id
  /\ ~ \E c \in connections : c.source_node_id = node_id /\ c.target_node_id = target_node_id
  /\ connections' = connections \cup
        {[source_node_id |-> node_id, target_node_id |-> target_node_id,
          type_of_connection |-> type_of_connection]}
  /\ UNCHANGED <<whiteboards, subjects, nodes, reports, rqvars, gnvars, parked, seq, scale>>

\* ------------------------------------------------------------ the LLM helper
\* llm.py 85-98 and 114-127: what a call of LLMHelper.generate_introduction or
\* LLMHelper.generate_body returns: None when the request raised, else the stripped
\* answer of the service, which may be empty. The service is opaque: an answer is
\* either empty or a text that names the function and repeats the prompt.
LLMOutcomes(call) == {None, <<>>, <<"<" \o call.fn \o ">">> \o call.text}

\* ---------------------------------------------------------- generate_report
\* an entry of the log of the request in progress
Event(ev, phase, k, result) == [ev |-> ev, phase |-> phase, k |-> k, result |-> result]

\* report.py 45-46
introduction_prompt(subject_rows) ==
  <<"Create an introduction for a report summarizing the following topics:", "\n\n">>
  \o Join(SummaryLines(subject_rows), <<"\n">>)

\* section_prompt that lists the nodes of the group by increasing id
section_prompt_by_id(group) ==
  <<"Summarize and explain the following concepts:", "\n\n">>
  \o Join(SummaryLines(RowsById({NodeById(group[i]) : i \in DOMAIN group})), <<"\n">>)

\* report.py 56-57
section_prompt(group) ==
  <<"Summarize and explain the following concepts:", "\n\n">>
  \o Join(SummaryLines(GroupRows(group)), <<"\n">>)

\* report.py 65
conclusion_prompt(introduction, report_body) ==
  <<"Based on this report:", "\n">> \o Fmt(introduction) \o <<"\n\n">> \o Fmt(report_body)
  \o <<"\n\n", "Write a strong conclusion.">>

\* report.py 71: the clock is not modelled
ReportTitle == <<"Report - ", "now">>

\* gr_begin with the test of lines 41-42 left out
gr_begin_no_subject_check(w) ==
  /\ pc = "idle"
  /\ Len(reports) < MaxReports
  /\ rq' = [NoLocals EXCEPT !.whiteboard_id = w]
  /\ IF w \notin whiteboards
     THEN /\ resp' = Response(404, "Whiteboard not found")
          /\ pc' = "done" /\ calls' = <<>> /\ pending' = NoCall
     ELSE /\ pending' = [fn |-> "generate_introduction",
                         text |-> introduction_prompt(RowsById({x \in subjects : x.whiteboard_id = w}))]
          /\ calls' = <<Event("call", "introduction", 0, None)>>
          /\ pc' = "introduction" /\ resp' = NoResp
  /\ UNCHANGED <<dbvars, gnvars, parked, seq, scale>>

\* gr_begin with the test of lines 36-37 left out
gr_begin_no_whiteboard_check(w) ==
  /\ pc = "idle"
  /\ Len(reports) < MaxReports
  /\ rq' = [NoLocals EXCEPT !.whiteboard_id = w]
  /\ IF {x \in subjects : x.whiteboard_id = w} = {}
     THEN /\ resp' = Response(404, "No subjects found for this whiteboard")
          /\ pc' = "done" /\ calls' = <<>> /\ pending' = NoCall
     ELSE /\ pending' = [fn |-> "generate_introduction",
                         text |-> introduction_prompt(RowsById({x \in subjects : x.whiteboard_id = w}))]
          /\ calls' = <<Event("call", "introduction", 0, None)>>
          /\ pc' = "introduction" /\ resp' = NoResp
  /\ UNCHANGED <<dbvars, gnvars, parked, seq, scale>>

\* gr_begin with lines 50-51 moved before line 47: the nodes are clustered first
gr_begin_cluster_first(w) ==
  /\ pc = "idle"
  /\ Len(reports) < MaxReports
  /\ IF w \notin whiteboards
     THEN /\ resp' = Response(404, "Whiteboard not found")
          /\ rq' = [NoLocals EXCEPT !.whiteboard_id = w]
          /\ pc' = "done" /\ calls' = <<>> /\ pending' = NoCall
     ELSE IF {x \in subjects : x.whiteboard_id = w} = {}
     THEN /\ resp' = Response(404, "No subjects found for this whiteboard")
          /\ rq' = [NoLocals EXCEPT !.whiteboard_id = w]
          /\ pc' = "done" /\ calls' = <<>> /\ pending' = NoCall
     ELSE /\ \E all_nodes \in Orderings({n.id : n \in {m \in nodes : m.whiteboard_id = w}}),
                order \in SetOrders :
               rq' = [NoLocals EXCEPT !.whiteboard_id = w,
                        !.node_groups = group_nodes_by_relevance(all_nodes, connections, order).groups]
          /\ pending' = [fn |-> "generate_introduction",
                         text |-> introduction_prompt(RowsById({x \in subjects : x.whiteboard_id = w}))]
          /\ calls' = <<Event("cluster", "ok", 0, None), Event("call", "introduction", 0, None)>>
          /\ pc' = "introduction" /\ resp' = NoResp
  /\ UNCHANGED <<dbvars, gnvars, parked, seq, scale>>

\* report.py 34-47: the two precondition checks, then the introduction call is issued
gr_begin(w) ==
  /\ pc = "idle"
  /\ Len(reports) < MaxReports
  /\ rq' = [NoLocals EXCEPT !.whiteboard_id = w]
  /\ IF w \notin whiteboards
     THEN /\ resp' = Response(404, "Whiteboard not found")
          /\ pc' = "done" /\ calls' = <<>> /\ pending' = NoCall
     ELSE IF {x \in subjects : x.whiteboard_id = w} = {}
     THEN /\ resp' = Response(404, "No subjects found for this whiteboard")
          /\ pc' = "done" /\ calls' = <<>> /\ pending' = NoCall
     ELSE /\ pending' = [fn |-> "generate_introduction",
                         text |-> introduction_prompt(RowsById({x \in subjects : x.whiteboard_id = w}))]
          /\ calls' = <<Event("call", "introduction", 0, None)>>
          /\ pc' = "introduction" /\ resp' = NoResp
  /\ UNCHANGED <<dbvars, gnvars, parked, seq, scale>>

\* report.py 47, 58 and 66: the call in flight returns and its result is assigned
generation_returns ==
  /\ pending # NoCall
  /\ \E result \in LLMOutcomes(pending) :
       /\ calls' = Append(calls, Event("return", pc,
                                       IF pc = "body" THEN Len(rq.sections) + 1 ELSE 0, result))
       /\ CASE pc = "introduction" -> rq' = [rq EXCEPT !.introduction = result] /\ pc' = "cluster"
            [] pc = "body" -> rq' = [rq EXCEPT !.sections = Append(@, result)] /\ pc' = "loop"
            [] pc = "conclusion" -> rq' = [rq EXCEPT !.conclusion = result] /\ pc' = "save"
  /\ pending' = NoCall
  /\ UNCHANGED <<resp, dbvars, gnvars, parked, seq, scale>>

\* report.py 50-51: the nodes of the whiteboard are read and clustered
gr_cluster ==
  /\ pc = "cluster"
  /\ \E all_nodes \in Orderings({n.id : n \in {m \in nodes : m.whiteboard_id = rq.whiteboard_id}}),
        order \in SetOrders :
       LET res == group_nodes_by_relevance(all_nodes, connections, order)
       IN IF res.status = "KeyError"
          THEN /\ resp' = Response(500, "KeyError")
               /\ calls' = Append(calls, Event("cluster", "KeyError", 0, None))
               /\ pc' = "done" /\ rq' = rq
          ELSE /\ rq' = [rq EXCEPT !.node_groups = res.groups]
               /\ calls' = Append(calls, Event("cluster", "ok", 0, None))
               /\ pc' = "loop" /\ resp' = resp
  /\ UNCHANGED <<pending, dbvars, gnvars, parked, seq, scale>>

\* report.py 55-58: the body call of the next group is issued
gr_section ==
  /\ pc = "loop"
  /\ Len(rq.sections) < Len(rq.node_groups)
  /\ pending' = [fn |-> "generate_body",
                 text |-> section_prompt(rq.node_groups[Len(rq.sections) + 1])]
  /\ calls' = Append(calls, Event("call", "body", Len(rq.sections) + 1, None))
  /\ pc' = "body"
  /\ UNCHANGED <<rq, resp, dbvars, gnvars, parked, seq, scale>>

\* gr_join taken while groups are still left: the conclusion is asked for too early
gr_join_early ==
  /\ pc = "loop"
  /\ IF \E i \in DOMAIN rq.sections : rq.sections[i] = None
     THEN /\ resp' = Response(500, "TypeError")
          /\ calls' = Append(calls, Event("join", "TypeError", 0, None))
          /\ pc' = "done" /\ rq' = rq /\ pending' = NoCall
     ELSE LET report_body == Join(rq.sections, <<"\n\n">>)
          IN /\ rq' = [rq EXCEPT !.report_body = report_body]
             /\ pending' = [fn |-> "generate_body",
                            text |-> conclusion_prompt(rq.introduction, report_body)]
             /\ calls' = Append(calls, Event("call", "conclusion", 0, None))
             /\ pc' = "conclusion" /\ resp' = resp
  /\ UNCHANGED <<dbvars, gnvars, parked, seq, scale>>

\* report.py 62-66: the sections are joined (str.join raises TypeError on a None
\* item), then the conclusion call is issued
gr_join ==
  /\ pc = "loop"
  /\ Len(rq.sections) = Len(rq.node_groups)
  /\ IF \E i \in DOMAIN rq.sections : rq.sections[i] = None
     THEN /\ resp' = Response(500, "TypeError")
          /\ calls' = Append(calls, Event("join", "TypeError", 0, None))
          /\ pc' = "done" /\ rq' = rq /\ pending' = NoCall
     ELSE LET report_body == Join(rq.sections, <<"\n\n">>)
          IN /\ rq' = [rq EXCEPT !.report_body = report_body]
             /\ pending' = [fn |-> "generate_body",
                            text |-> conclusion_prompt(rq.introduction, report_body)]
             /\ calls' = Append(calls, Event("call", "conclusion", 0, None))
             /\ pc' = "conclusion" /\ resp' = resp
  /\ UNCHANGED <<dbvars, gnvars, parked, seq, scale>>

\* gr_save that gives up when the conclusion call has failed
gr_save_strict ==
  /\ pc = "save"
  /\ IF rq.conclusion = None
     THEN /\ resp' = Response(500, "Failed to generate conclusion")
          /\ calls' = calls /\ reports' = reports
     ELSE \E committed \in BOOLEAN :
            IF committed
            THEN /\ reports' = Append(reports,
                      [id |-> Len(reports) + 1, whiteboard_id |-> rq.whiteboard_id,
                       title |-> ReportTitle, introduction |-> rq.introduction,
                       body |-> rq.report_body, conclusion |-> rq.conclusion])
                 /\ resp' = Response(200, "report")
                 /\ calls' = Append(calls, Event("insert", "save", 0, None))
            ELSE /\ reports' = reports
                 /\ resp' = Response(500, "SQLAlchemyError")
                 /\ calls' = Append(calls, Event("insert", "SQLAlchemyError", 0, None))
  /\ pc' = "done"
  /\ UNCHANGED <<rq, pending, whiteboards, subjects, nodes, connections, gnvars, parked, seq, scale>>

\* gr_save that writes the new report over the report stored last
gr_save_overwrite ==
  /\ pc = "save"
  /\ LET new_report == [id |-> Len(reports) + 1, whiteboard_id |-> rq.whiteboard_id,
                        title |-> ReportTitle, introduction |-> rq.introduction,
                        body |-> rq.report_body, conclusion |-> rq.conclusion]
     IN \E committed \in BOOLEAN :
          IF committed
          THEN /\ reports' = IF reports = <<>> THEN <<new_report>>
                                ELSE [reports EXCEPT ![Len(reports)] = new_report]
               /\ resp' = Response(200, "report")
               /\ calls' = Append(calls, Event("insert", "save", 0, None))
          ELSE /\ reports' = reports
               /\ resp' = Response(500, "SQLAlchemyError")
               /\ calls' = Append(calls, Event("insert", "SQLAlchemyError", 0, None))
  /\ pc' = "done"
  /\ UNCHANGED <<rq, pending, whiteboards, subjects, nodes, connections, gnvars, parked, seq, scale>>

\* gr_save whose failed insert leaves a row without its texts behind
gr_save_partial ==
  /\ pc = "save"
  /\ LET new_report == [id |-> Len(reports) + 1, whiteboard_id |-> rq.whiteboard_id,
                        title |-> ReportTitle, introduction |-> rq.introduction,
                        body |-> rq.report_body, conclusion |-> rq.conclusion]
     IN \E committed \in BOOLEAN :
          IF committed
          THEN /\ reports' = Append(reports, new_report)
               /\ resp' = Response(200, "report")
               /\ calls' = Append(calls, Event("insert", "save", 0, None))
          ELSE /\ reports' = Append(reports, [new_report EXCEPT !.body = None, !.conclusion = None])
               /\ resp' = Response(500, "SQLAlchemyError")
               /\ calls' = Append(calls, Event("insert", "SQLAlchemyError", 0, None))
  /\ pc' = "done"
  /\ UNCHANGED <<rq, pending, whiteboards, subjects, nodes, connections, gnvars, parked, seq, scale>>

\* report.py 68-80: the report is inserted and returned. db.commit() (line 77) is the
\* one write: when it raises, the exception leaves the handler (a 500 response), the
\* session is closed by get_db (db.py 18-19) and the pending row is discarded
gr_save ==
  /\ pc = "save"
  /\ LET new_report == [id |-> Len(reports) + 1, whiteboard_id |-> rq.whiteboard_id,
                        title |-> ReportTitle, introduction |-> rq.introduction,
                        body |-> rq.report_body, conclusion |-> rq.conclusion]
     IN \E committed \in BOOLEAN :
          IF committed
          THEN /\ reports' = Append(reports, new_report)
               /\ resp' = Response(200, "report")
               /\ calls' = Append(calls, Event("insert", "save", 0, None))
          ELSE /\ reports' = reports
               /\ resp' = Response(500, "SQLAlchemyError")
               /\ calls' = Append(calls, Event("insert", "SQLAlchemyError", 0, None))
  /\ pc' = "done"
  /\ UNCHANGED <<rq, pending, whiteboards, subjects, nodes, connections, gnvars, parked, seq, scale>>

\* the response has been sent; the next request can come
gr_end ==
  /\ pc = "done"
  /\ pc' = "idle" /\ rq' = NoLocals /\ calls' = <<>> /\ resp' = NoResp
  /\ UNCHANGED <<pending, dbvars, gnvars, parked, seq, scale>>

Next ==
  \/ create_whiteboard
  \/ \E w \in WhiteboardIds, summary \in {None, <<"X">>} : create_subject(w, summary)
  \/ \E w \in WhiteboardIds : create_node(w)
  \/ \E id \in NodeIds : generate_node_summary(id)
  \/ \E s, t \in NodeIds, kind \in ConnectionType : connect_node(s, t, kind)
  \/ \E w \in 1..(MaxWhiteboards + 1) : gr_begin(w)
  \/ generation_returns
  \/ gr_cluster
  \/ gr_section
  \/ gr_join
  \/ gr_save
  \/ gr_end

Spec == Init /\ [][Next]_vars

\* ------------------------------------------------- requests in several threads
\* generate_report is a plain def: the server runs each request in a thread of its
\* pool, with a session of its own (db.py 14-19). The request of the running thread
\* is in pc, rq, pending, calls and resp; the others wait in parked.
\* at most this many requests are in progress at a time
MaxRequests == 2

\* the request of the running thread
Running == [pc |-> pc, rq |-> rq, pending |-> pending, calls |-> calls, resp |-> resp]

\* the thread of the request in progress is suspended; another thread may take a request
park ==
  /\ pc # "idle"
  /\ Len(parked) < MaxRequests - 1
  /\ parked' = Append(parked, Running)
  /\ pc' = "idle" /\ rq' = NoLocals /\ pending' = NoCall /\ calls' = <<>> /\ resp' = NoResp
  /\ UNCHANGED <<dbvars, gnvars, seq, scale>>

\* the i-th suspended thread runs again, in place of the running one (which is
\* suspended in its turn, if it has a request in progress)
resume(i) ==
  /\ i \in DOMAIN parked
  /\ pc' = parked[i].pc /\ rq' = parked[i].rq /\ pending' = parked[i].pending
  /\ calls' = parked[i].calls /\ resp' = parked[i].resp
  /\ parked' = IF pc = "idle"
               THEN SubSeq(parked, 1, i - 1) \o SubSeq(parked, i + 1, Len(parked))
               ELSE [parked EXCEPT ![i] = Running]
  /\ UNCHANGED <<dbvars, gnvars, seq, scale>>

\* a database the endpoints above can have built: two whiteboards with a subject
\* each, a summarized node on whiteboard 1, a second node on either whiteboard, and
\* possibly a connection from the first node to the second
InitConcurrent ==
  /\ whiteboards = {1, 2}
  /\ subjects = {[id |-> w, whiteboard_id |-> w, name |-> <<"subject" \o ToString(w)>>,
                  summary |-> <<"X">>] : w \in {1, 2}}
  /\ \E w \in {1, 2} :
       nodes = {[id |-> 1, whiteboard_id |-> 1, name |-> <<"title1">>, summary |-> <<"summary1">>],
                [id |-> 2, whiteboard_id |-> w, name |-> <<"node2">>, summary |-> None]}
  /\ connections \in {{}, {[source_node_id |-> 1, target_node_id |-> 2,
                             type_of_connection |-> "main_connection"]}}
  /\ reports = <<>>
  /\ pc = "idle" /\ rq = NoLocals /\ pending = NoCall /\ calls = <<>> /\ resp = NoResp
  /\ gn_nodes = <<>> /\ gn_conns = {} /\ gn_result = NotRun
  /\ parked = <<>> /\ seq = [nodes |-> 2, subjects |-> 2, connections |-> 0]
  /\ scale = [w \in whiteboards |-> <<DefaultScale>>]

NextConcurrent ==
  \/ \E id \in NodeIds : generate_node_summary(id)
  \/ \E w \in 1..(MaxWhiteboards + 1) : gr_begin(w)
  \/ generation_returns
  \/ gr_cluster
  \/ gr_section
  \/ gr_join
  \/ gr_save
  \/ gr_end
  \/ park
  \/ \E i \in 1..MaxRequests : resume(i)

SpecConcurrent == InitConcurrent /\ [][NextConcurrent]_vars

\* ------------------------------------------- requests on a stored whiteboard
\* a database the endpoints above (with update_subject, which can move a subject to
\* another whiteboard, and edit_node_name) can have built: two whiteboards, two
\* subjects, two nodes and at most one connection between the nodes
InitStored ==
  /\ whiteboards = {1, 2}
  /\ \E w \in [{1, 2} -> {1, 2}], summary \in [{1, 2} -> {None, <<>>, <<"X">>}] :
       subjects = {[id |-> i, whiteboard_id |-> w[i], name |-> <<"subject" \o ToString(i)>>,
                    summary |-> summary[i]] : i \in {1, 2}}
  /\ \E w \in {1, 2}, a \in {None, <<>>, <<"A">>}, b \in {None, <<"B">>} :
       nodes = {[id |-> 1, whiteboard_id |-> 1, name |-> <<"node1">>, summary |-> a],
                [id |-> 2, whiteboard_id |-> w, name |-> <<"node2">>, summary |-> b]}
  /\ \E s \in {1, 2} :
       connections \in {{}, {[source_node_id |-> s, target_node_id |-> 3 - s,
                               type_of_connection |-> "sub_connection"]}}
  /\ reports = <<>>
  /\ pc = "idle" /\ rq = NoLocals /\ pending = NoCall /\ calls = <<>> /\ resp = NoResp
  /\ gn_nodes = <<>> /\ gn_conns = {} /\ gn_result = NotRun
  /\ parked = <<>> /\ seq = [nodes |-> 2, subjects |-> 2, connections |-> 0]
  /\ scale = [w \in whiteboards |-> <<DefaultScale>>]

NextStored ==
  \/ \E w \in 1..(MaxWhiteboards + 1) : gr_begin(w)
  \/ generation_returns
  \/ gr_cluster
  \/ gr_section
  \/ gr_join
  \/ gr_save
  \/ gr_end

SpecStored == InitStored /\ [][NextStored]_vars

\* ------------------------------------------------- the subject endpoints
\* subject.py 30-37: a whiteboard that has a subject gets no second one from
\* create_subject; nothing is stored
create_subject_refused(w) ==
  /\ pc = "idle"
  /\ \E x \in subjects : x.whiteboard_id = w
  /\ resp' = Response(400, "Whiteboard already has a subject.")
  /\ UNCHANGED <<dbvars, pc, rq, pending, calls, gnvars, parked, seq, scale>>

\* a field the request body leaves out (schemas/subject.py: summary is optional)
Unset == <<"unset field">>

\* subject.py 79-112: every field the body sets is assigned to the row, the
\* whiteboard_id included (SubjectUpdate is SubjectBase); the only test made is
\* that the subject exists
update_subject(subject_id, w, name, summary) ==
  /\ pc = "idle"
  /\ w \in whiteboards
  /\ IF \E x \in subjects : x.id = subject_id
       THEN \E x \in subjects :
              /\ x.id = subject_id
              /\ subjects' = (subjects \ {x}) \cup
                   {[x EXCEPT !.name = name, !.whiteboard_id = w,
                              !.summary = IF summary = Unset THEN @ ELSE summary]}
              /\ resp' = Response(200, "subject")
       ELSE /\ resp' = Response(404, "Subject not found")
            /\ UNCHANGED subjects
  /\ UNCHANGED <<whiteboards, nodes, connections, reports, pc, rq, pending, calls,
                 gnvars, parked, seq, scale>>

\* subject.py 114-140
delete_subject(subject_id) ==
  /\ pc = "idle"
  /\ IF \E x \in subjects : x.id = subject_id
       THEN /\ subjects' = {x \in subjects : x.id # subject_id}
            /\ resp' = Response(200, "Subject deleted successfully")
       ELSE /\ resp' = Response(404, "Subject not found")
            /\ UNCHANGED subjects
  /\ UNCHANGED <<whiteboards, nodes, connections, reports, pc, rq, pending, calls,
                 gnvars, parked, seq, scale>>

\* the subject endpoints alone, on the seeded database
NextSubjects ==
  \/ create_whiteboard
  \/ \E w \in whiteboards, summary \in {None, <<"X">>} : create_subject(w, summary)
  \/ \E w \in whiteboards : create_subject_refused(w)
  \/ \E subject_id \in 1..(MaxSubjects + 1), w \in whiteboards,
        name \in {<<"renamed">>}, summary \in {Unset, <<"Y">>} :
          update_subject(subject_id, w, name, summary)
  \/ \E subject_id \in 1..(MaxSubjects + 1) : delete_subject(subject_id)

SpecSubjects == Init /\ [][NextSubjects]_vars

\* ---------------------------------------------------- the graph endpoints
\* node.py 149-169: the four tests of connect_node in the order in which they are
\* made; the first that fails decides the response (NoResp when all pass)
connect_node_error(node_id, target_node_id) ==
  IF ~ \E n \in nodes : n.id = node_id THEN Response(404, "Source node not found")
  ELSE IF ~ \E n \in nodes : n.id = target_node_id THEN Response(404, "Target node not found")
  ELSE IF node_id = target_node_id THEN Response(400, "A node cannot connect to itself")
  ELSE IF \E c \in connections :
            c.source_node_id = node_id /\ c.target_node_id = target_node_id
    THEN Response(400, "Connection already exists")
  ELSE NoResp

\* node.py 149-169: a request that fails a test is answered with the error; nothing
\* is stored
connect_node_refused(node_id, target_node_id) ==
  /\ pc = "idle"
  /\ connect_node_error(node_id, target_node_id) # NoResp
  /\ resp' = connect_node_error(node_id, target_node_id)
  /\ UNCHANGED <<dbvars, pc, rq, pending, calls, gnvars, parked, seq, scale>>

\* connection.py 38-61: the row is named by its id; the model names it by its content
delete_connection(c) ==
  /\ pc = "idle"
  /\ IF c \in connections
       THEN /\ connections' = connections \ {c}
            /\ resp' = Response(200, "Connection deleted successfully")
       ELSE /\ resp' = Response(404, "Connection not found")
            /\ UNCHANGED connections
  /\ UNCHANGED <<whiteboards, subjects, nodes, reports, pc, rq, pending, calls,
                 gnvars, parked, seq, scale>>

\* delete_node removing only the connections that start at the node
delete_node_source_only(node_id) ==
  /\ pc = "idle"
  /\ IF \E n \in nodes : n.id = node_id
       THEN /\ connections' = {c \in connections : c.source_node_id # node_id}
            /\ nodes' = {n \in nodes : n.id # node_id}
            /\ resp' = Response(200, "Node and its connections were successfully deleted")
       ELSE /\ resp' = Response(404, "Node not found")
            /\ UNCHANGED <<nodes, connections>>
  /\ UNCHANGED <<whiteboards, subjects, reports, pc, rq, pending, calls,
                 gnvars, parked, seq, scale>>

\* node.py 194-225: the connections in which the node is source or target go
\* with it
delete_node(node_id) ==
  /\ pc = "idle"
  /\ IF \E n \in nodes : n.id = node_id
       THEN /\ connections' = {c \in connections :
                 ~ (c.source_node_id = node_id \/ c.target_node_id = node_id)}
            /\ nodes' = {n \in nodes : n.id # node_id}
            /\ resp' = Response(200, "Node and its connections were successfully deleted")
       ELSE /\ resp' = Response(404, "Node not found")
            /\ UNCHANGED <<nodes, connections>>
  /\ UNCHANGED <<whiteboards, subjects, reports, pc, rq, pending, calls,
                 gnvars, parked, seq, scale>>

\* node.py 228-256: the name alone is replaced
edit_node_name(node_id, name) ==
  /\ pc = "idle"
  /\ IF \E n \in nodes : n.id = node_id
       THEN /\ nodes' = {IF n.id = node_id THEN [n EXCEPT !.name = name] ELSE n : n \in nodes}
            /\ resp' = Response(200, "Node name updated successfully")
       ELSE /\ resp' = Response(404, "Node not found")
            /\ UNCHANGED nodes
  /\ UNCHANGED <<whiteboards, subjects, connections, reports, pc, rq, pending, calls,
                 gnvars, parked, seq, scale>>

\* llm.py 187-225: the title is asked for first, then the summary, inside one try;
\* the helper returns None when either call raises
summary_and_title_is_None(title_raises, summary_raises) ==
  title_raises \/ summary_raises

\* node.py 337-355, when the request fails: the node is missing, or the helper
\* returned None (the node has interactions); the node is left as it is
generate_node_summary_failed(node_id) ==
  /\ pc = "idle"
  /\ IF ~ \E n \in nodes : n.id = node_id
       THEN resp' = Response(404, "Node not found")
       ELSE /\ \E title_raises, summary_raises \in BOOLEAN :
                 summary_and_title_is_None(title_raises, summary_raises)
            /\ resp' = Response(500, "Failed to generate summary and title.")
  /\ UNCHANGED <<dbvars, pc, rq, pending, calls, gnvars, parked, seq, scale>>

\* the endpoints that write the connections, alone
NextGraph ==
  \/ \E w \in whiteboards : create_node(w)
  \/ \E s \in NodeIds, t \in NodeIds, k \in ConnectionType : connect_node(s, t, k)
  \/ \E s \in NodeIds, t \in NodeIds : connect_node_refused(s, t)
  \/ \E c \in Connection : delete_connection(c)
  \/ \E n \in NodeIds : delete_node(n)

\* the rows create_node has stored after k calls for whiteboard 1
CreatedNodes(k) ==
  {[id |-> i, whiteboard_id |-> 1, name |-> <<"node" \o ToString(i)>>, summary |-> None] :
     i \in 1..k}

\* the seeded database after any number of create_node calls
InitGraph ==
  /\ whiteboards = {1}
  /\ subjects = {} /\ connections = {} /\ reports = <<>>
  /\ \E k \in 0..MaxNodes : nodes = CreatedNodes(k) /\ seq = [nodes |-> k, subjects |-> 0, connections |-> 0]
  /\ pc = "idle" /\ rq = NoLocals /\ pending = NoCall /\ calls = <<>> /\ resp = NoResp
  /\ gn_nodes = <<>> /\ gn_conns = {} /\ gn_result = NotRun
  /\ parked = <<>>
  /\ scale = [w \in whiteboards |-> <<DefaultScale>>]

SpecGraph == InitGraph /\ [][NextGraph]_vars

\* the endpoints that write the fields of a node, alone
NextNodes ==
  \/ \E w \in whiteboards : create_node(w)
  \/ \E n \in NodeIds : delete_node(n)
  \/ \E n \in NodeIds : edit_node_name(n, <<"renamed">>)
  \/ \E n \in NodeIds : generate_node_summary(n)
  \/ \E n \in NodeIds : generate_node_summary_failed(n)

SpecNodes == InitGraph /\ [][NextNodes]_vars

\* ------------------------------------------- connect_node in two threads
\* node.py 149-179 as the steps a thread takes: the tests (149-169) read the
\* tables, the insert (172-178) is a later statement of the same request, and no
\* lock or unique constraint (models/connection.py 27-32) ties the two together.
\* A request that has passed the tests waits in `parked` for its insert.
PassedTests(node_id, target_node_id, type_of_connection) ==
  [pc |-> "insert", node_id |-> node_id, target_node_id |-> target_node_id,
   type_of_connection |-> type_of_connection]

\* node.py 149-169: the tests of one request; at most MaxRequests requests are made
connect_node_check(node_id, target_node_id, type_of_connection) ==
  /\ pc = "idle"
  /\ seq.connections + Len(parked) < MaxRequests
  /\ IF connect_node_error(node_id, target_node_id) # NoResp
       THEN /\ resp' = connect_node_error(node_id, target_node_id)
            /\ UNCHANGED parked
       ELSE /\ parked' = Append(parked, PassedTests(node_id, target_node_id, type_of_connection))
            /\ UNCHANGED resp
  /\ UNCHANGED <<dbvars, pc, rq, pending, calls, gnvars, seq, scale>>

\* node.py 172-191: the insert of a request that has passed the tests; the new row
\* has its own id
connect_node_insert(i) ==
  /\ pc = "idle"
  /\ i \in DOMAIN parked
  /\ connections' = connections \cup
        {[id |-> seq.connections + 1, source_node_id |-> parked[i].node_id,
          target_node_id |-> parked[i].target_node_id,
          type_of_connection |-> parked[i].type_of_connection]}
  /\ seq' = [seq EXCEPT !.connections = @ + 1]
  /\ parked' = [j \in 1..(Len(parked) - 1) |-> IF j < i THEN parked[j] ELSE parked[j + 1]]
  /\ resp' = Response(200, "Connections created successfully")
  /\ UNCHANGED <<whiteboards, subjects, nodes, reports, pc, rq, pending, calls, gnvars, scale>>

\* two stored nodes and no connection
InitRace ==
  /\ whiteboards = {1}
  /\ subjects = {} /\ connections = {} /\ reports = <<>>
  /\ nodes = CreatedNodes(2) /\ seq = [nodes |-> 2, subjects |-> 0, connections |-> 0]
  /\ pc = "idle" /\ rq = NoLocals /\ pending = NoCall /\ calls = <<>> /\ resp = NoResp
  /\ gn_nodes = <<>> /\ gn_conns = {} /\ gn_result = NotRun
  /\ parked = <<>>
  /\ scale = [w \in whiteboards |-> <<DefaultScale>>]

NextRace ==
  \/ \E s \in NodeIds, t \in NodeIds, k \in ConnectionType : connect_node_check(s, t, k)
  \/ \E i \in 1..MaxRequests : connect_node_insert(i)

SpecRace == InitRace /\ [][NextRace]_vars

\* --------------------------------------------------------- the zoom endpoint
\* whiteboard.py 83-92: the scale update_zoom assigns, <<>> when it assigns none
\* (an unknown action, or custom without a scale)
zoom_scale(old, action, sc) ==
  CASE action = "in" -> <<py_min(Plus(old, 1), MaxScale)>>
    [] action = "out" -> <<py_max(Plus(old, -1), MinScale)>>
    [] action = "reset" -> <<DefaultScale>>
    [] action = "custom" /\ sc # <<>> -> <<py_max(py_min(sc[1], MaxScale), MinScale)>>
    [] OTHER -> <<>>

\* whiteboard.py 51-96: 404 for a missing whiteboard, 400 when no scale is
\* assigned; `in` and `out` on a scale that is NULL raise TypeError before anything
\* is assigned; otherwise the new scale is committed
update_zoom(whiteboard_id, action, sc) ==
  /\ pc = "idle"
  /\ IF whiteboard_id \notin whiteboards
       THEN resp' = Response(404, "Whiteboard not found") /\ UNCHANGED scale
     ELSE IF action \in {"in", "out"} /\ scale[whiteboard_id] = NullScale
       THEN resp' = Response(500, "TypeError") /\ UNCHANGED scale
     ELSE IF zoom_scale(scale[whiteboard_id][1], action, sc) = <<>>
       THEN resp' = Response(400, "Invalid action or missing scale") /\ UNCHANGED scale
     ELSE /\ scale' = [scale EXCEPT ![whiteboard_id] = zoom_scale(@[1], action, sc)]
          /\ resp' = Response(200, "scale")
  /\ UNCHANGED <<dbvars, pc, rq, pending, calls, gnvars, parked, seq>>

\* the actions and scales requests are made with
ZoomActions == {"in", "out", "reset", "custom", "fit"}
ZoomScales == {<<>>, <<NaN>>, <<0>>, <<MinScale>>, <<12>>, <<MaxScale>>, <<MaxScale + 1>>}

\* models/whiteboard.py 28 and the seed migration: the scale of a whiteboard made
\* by create_whiteboard is 1.0; the seed inserts whiteboard 1 with id and name only,
\* so its scale is 1.0 only if the table has a default of its own, and NULL otherwise
InitZoom ==
  /\ whiteboards = {1}
  /\ subjects = {} /\ nodes = {} /\ connections = {} /\ reports = <<>>
  /\ pc = "idle" /\ rq = NoLocals /\ pending = NoCall /\ calls = <<>> /\ resp = NoResp
  /\ gn_nodes = <<>> /\ gn_conns = {} /\ gn_result = NotRun
  /\ parked = <<>> /\ seq = [nodes |-> 0, subjects |-> 0, connections |-> 0]
  /\ scale \in [whiteboards -> {NullScale, <<DefaultScale>>}]

NextZoom ==
  \/ create_whiteboard
  \/ \E w \in 1..(MaxWhiteboards + 1), action \in ZoomActions, sc \in ZoomScales :
       update_zoom(w, action, sc)

SpecZoom == InitZoom /\ [][NextZoom]_vars

\* ============================================================ the claims
\* ---------------------------------------------- clusterer (SpecCluster)
Listed == SeqToSet(gn_nodes)

\* every connection has its source and its target in the node list
EndpointsInList ==
  \A c \in gn_conns : c.source_node_id \in Listed /\ c.target_node_id \in Listed

\* a connection of a listed node targets a node that is not listed
DanglingConns ==
  {c \in gn_conns : c.source_node_id \in Listed /\ c.target_node_id \notin Listed}

RECURSIVE Flatten(_)
\* the groups one after the other
Flatten(groups) == IF groups = <<>> THEN <<>> ELSE Head(groups) \o Flatten(Tail(groups))

\* the groups as a set of sets of node ids
AsPartition(groups) == {SeqToSet(groups[g]) : g \in DOMAIN groups}

SameCluster(a, b, groups) ==
  \E g \in DOMAIN groups : a \in SeqToSet(groups[g]) /\ b \in SeqToSet(groups[g])

RECURSIVE Component(_, _)
\* the nodes joined to a node of S by a path of connections, whatever their direction
Component(S, conns) ==
  LET more == S \cup {c.target_node_id : c \in {d \in conns : d.source_node_id \in S}}
                \cup {c.source_node_id : c \in {d \in conns : d.target_node_id \in S}}
  IN IF more = S THEN S ELSE Component(more, conns)

\* C2: when every connection has both endpoints in the node list, the call returns
\* groups that partition the list: no group is empty, and the groups put one after
\* the other hold every listed node exactly once and nothing else.
C2_Partition ==
  (gn_result # NotRun /\ EndpointsInList) =>
     /\ gn_result.status = "ok"
     /\ \A g \in DOMAIN gn_result.groups : gn_result.groups[g] # <<>>
     /\ Len(Flatten(gn_result.groups)) = Len(gn_nodes)
     /\ SeqToSet(Flatten(gn_result.groups)) = Listed

\* a call on connected nodes has returned at least two groups, one of several nodes
C2_Witness ==
  /\ gn_result.status = "ok" /\ EndpointsInList
  /\ Len(gn_result.groups) >= 2
  /\ \E g \in DOMAIN gn_result.groups : Len(gn_result.groups[g]) >= 2

C4_DanglingIgnored ==
  (gn_result # NotRun /\ DanglingConns # {}) =>
     /\ gn_result.status = "ok"
     /\ \E order \in SetOrders :
          AsPartition(gn_result.groups)
            = AsPartition(group_nodes_by_relevance(gn_nodes, gn_conns \ DanglingConns, order).groups)

\* the position of a listed node in the node list
InputIndex(n) == CHOOSE i \in DOMAIN gn_nodes : gn_nodes[i] = n

\* the smallest position in the node list of a node of the group
EarliestIndex(group) ==
  CHOOSE i \in {InputIndex(n) : n \in SeqToSet(group)} :
     \A n \in SeqToSet(group) : i <= InputIndex(n)

\* the groups as sets of node ids, in the order in which they were emitted
ClusterSets(groups) == [g \in DOMAIN groups |-> SeqToSet(groups[g])]

\* C15: the groups a call returns are in the order of the earliest position of their
\* nodes in the node list, and the first node of each group is its node of earliest
\* position.
C15_EmissionOrder ==
  gn_result.status = "ok" =>
     /\ \A i, j \in DOMAIN gn_result.groups :
          i < j => EarliestIndex(gn_result.groups[i]) < EarliestIndex(gn_result.groups[j])
     /\ \A g \in DOMAIN gn_result.groups :
          InputIndex(gn_result.groups[g][1]) = EarliestIndex(gn_result.groups[g])

\* a call on a list that is not in the order of the ids has returned two groups,
\* the second one of two nodes
C15_Witness ==
  /\ gn_result.status = "ok"
  /\ Len(gn_result.groups) = 2 /\ Len(gn_result.groups[2]) = 2
  /\ gn_nodes[1] > gn_nodes[2]

\* C17: a second call on the same node list and the same connections returns the
\* same sets of nodes in the same order as the call before it (and raises when the
\* call before raised), whatever the order in which the neighbour sets are iterated.
C17_Idempotent ==
  [][(gn_result # NotRun /\ gn_nodes' = gn_nodes /\ gn_conns' = gn_conns) =>
       /\ gn_result'.status = gn_result.status
       /\ ClusterSets(gn_result'.groups) = ClusterSets(gn_result.groups)]_vars

\* a call has returned groups that a second call can return with the nodes of a
\* group in another order
C17_Witness ==
  /\ gn_result.status = "ok"
  /\ \E order \in SetOrders : group_nodes_by_relevance(gn_nodes, gn_conns, order) # gn_result

\* the connections, those of the set R with source and target swapped
Reversed(conns, R) ==
  (conns \ R) \cup {[c EXCEPT !.source_node_id = c.target_node_id,
                               !.target_node_id = c.source_node_id] : c \in R}

\* C18: when every connection has both endpoints in the node list, swapping source
\* and target of any of the connections leaves the sets of nodes returned and their
\* order as they are.
C18_DirectionIrrelevant ==
  (gn_result.status = "ok" /\ EndpointsInList) =>
     \A R \in SUBSET gn_conns : \A order \in SetOrders :
        LET swapped == group_nodes_by_relevance(gn_nodes, Reversed(gn_conns, R), order)
        IN /\ swapped.status = "ok"
           /\ ClusterSets(swapped.groups) = ClusterSets(gn_result.groups)

\* a call has put three nodes, joined by two connections, in one group that does not
\* start at the source of a connection
C18_Witness ==
  /\ gn_result.status = "ok" /\ EndpointsInList
  /\ Cardinality(gn_conns) = 2
  /\ \E g \in DOMAIN gn_result.groups :
       /\ Len(gn_result.groups[g]) = 3
       /\ \A c \in gn_conns : c.source_node_id # gn_result.groups[g][1]

\* ------------------------------------------------- generate_report (Spec)
\* the whiteboard has at least one subject
HasSubjects(w) == \E x \in subjects : x.whiteboard_id = w

\* the entries of the log of the given kind and phase, in order
Logged(ev, phase) == SelectSeq(calls, LAMBDA e : e.ev = ev /\ e.phase = phase)

\* the results of the calls of a phase that have returned, in order
Results(phase) == [i \in DOMAIN Logged("return", phase) |-> Logged("return", phase)[i].result]

\* the report stored last
LastReport == reports[Len(reports)]

\* the sections whose call did not fail
Succeeded(sections) == SelectSeq(sections, LAMBDA t : t # None)

\* C1 (as claimed): a request on an existing whiteboard with a subject, whose
\* clustering raised nothing and whose insert did not fail, ends with status 200 and
\* one inserted report, whatever generation calls failed; the body is made of the
\* sections that did not fail.
C1_BestEffort ==
  (/\ pc = "done"
   /\ rq.whiteboard_id \in whiteboards /\ HasSubjects(rq.whiteboard_id)
   /\ Logged("cluster", "KeyError") = <<>>
   /\ Logged("insert", "SQLAlchemyError") = <<>>)
  => /\ resp.status = 200
     /\ Len(Logged("insert", "save")) = 1
     /\ LastReport.body = Join(Succeeded(rq.sections), <<"\n\n">>)

\* the conclusion call has returned None; the introduction call and every body call
\* have returned a text
OnlyConclusionFailed ==
  /\ Results("conclusion") = <<None>>
  /\ Results("introduction") # <<None>>
  /\ \A i \in DOMAIN Results("body") : Results("body")[i] # None

\* C5 (as claimed): when only the conclusion call fails, the request ends with
\* status 200 and the stored report has a non-empty introduction, a non-empty body
\* and an empty conclusion.
C5_Original ==
  (pc = "done" /\ OnlyConclusionFailed) =>
     /\ resp.status = 200
     /\ Truthy(LastReport.introduction)
     /\ Truthy(LastReport.body)
     /\ ~ Truthy(LastReport.conclusion)

\* OnlyConclusionFailed, every text returned being non-empty and at least one body
\* call having been made
OnlyConclusionFailedNonEmpty ==
  /\ OnlyConclusionFailed
  /\ Truthy(Results("introduction")[1])
  /\ Results("body") # <<>>
  /\ \A i \in DOMAIN Results("body") : Truthy(Results("body")[i])

\* C5 (amended): when only the conclusion call fails, the other calls return
\* non-empty texts, the whiteboard has a node (so that a body call is made) and the
\* insert does not fail, the request ends with status 200 and the stored report has
\* a non-empty introduction, a non-empty body and a null conclusion.
C5_ConclusionFailed ==
  (pc = "done" /\ OnlyConclusionFailedNonEmpty /\ Logged("insert", "SQLAlchemyError") = <<>>) =>
     /\ resp.status = 200
     /\ Len(Logged("insert", "save")) = 1
     /\ Truthy(LastReport.introduction)
     /\ Truthy(LastReport.body)
     /\ LastReport.conclusion = None

\* a request has ended after only its conclusion call failed
C5_Witness == pc = "done" /\ OnlyConclusionFailedNonEmpty /\ resp.status = 200

\* a step that takes up a request
Begins == pc = "idle" /\ pc' # "idle"

\* the request has ended with the given error, having made no generation call and
\* changed no stored row
Refused(status, detail) ==
  /\ pc' = "done" /\ resp' = Response(status, detail)
  /\ pending' = NoCall /\ calls' = <<>>
  /\ dbvars' = dbvars

\* C6: a request for an existing whiteboard without subjects ends at once with a 404
\* error, no generation call made and no stored row changed; an ended request makes
\* no call any more.
C6_NoSubjects ==
  /\ [][(Begins /\ rq'.whiteboard_id \in whiteboards /\ ~ HasSubjects(rq'.whiteboard_id))
          => Refused(404, "No subjects found for this whiteboard")]_vars
  /\ [][(pc = "done") => (pc' = "idle" /\ pending' = NoCall /\ dbvars' = dbvars)]_vars

\* a request for an existing whiteboard without subjects has been refused
C6_Witness ==
  /\ pc = "done" /\ rq.whiteboard_id \in whiteboards
  /\ resp = Response(404, "No subjects found for this whiteboard")

\* C7: a request for a whiteboard id that does not exist ends at once with the 404
\* error "Whiteboard not found", no generation call made and no stored row changed.
C7_NoWhiteboard ==
  [][(Begins /\ rq'.whiteboard_id \notin whiteboards)
        => Refused(404, "Whiteboard not found")]_vars

\* a request for a missing whiteboard has been refused while subjects are stored
C7_Witness ==
  /\ pc = "done" /\ rq.whiteboard_id \notin whiteboards
  /\ resp = Response(404, "Whiteboard not found")
  /\ subjects # {}

\* C8 (as claimed): a body call is made only for a group that holds a node with a
\* non-empty summary.
C8_SkipsEmptyGroups ==
  \A i \in DOMAIN calls :
     (calls[i].ev = "call" /\ calls[i].phase = "body")
        => \E j \in DOMAIN rq.node_groups[calls[i].k] :
              Truthy(NodeById(rq.node_groups[calls[i].k][j]).summary)

\* the phase and group index of the generation calls issued so far, in order
CallSeq ==
  LET issued == SelectSeq(calls, LAMBDA e : e.ev = "call")
  IN [i \in DOMAIN issued |-> <<issued[i].phase, issued[i].k>>]

\* the calls a request on n groups issues when nothing stops it
ExpectedCalls(n) ==
  <<<<"introduction", 0>>>> \o [k \in 1..n |-> <<"body", k>>] \o <<<<"conclusion", 0>>>>

IsPrefix(s, t) == Len(s) <= Len(t) /\ \A i \in DOMAIN s : s[i] = t[i]

\* C9: the calls of a request are the introduction call, then one body call per
\* group in the order of the groups, then the conclusion call; each call has returned
\* before anything else is done, the prompt of the k-th body call is that of the k-th
\* group, and the insert directly follows the return of the conclusion call.
C9_Sequential ==
  /\ IsPrefix(CallSeq, ExpectedCalls(Len(rq.node_groups)))
  /\ \A i \in DOMAIN calls :
       /\ calls[i].ev = "call" =>
            IF i = Len(calls) THEN pending # NoCall
            ELSE calls[i + 1] = [calls[i + 1] EXCEPT !.ev = "return", !.phase = calls[i].phase,
                                                       !.k = calls[i].k]
       /\ calls[i].ev = "return" => (i > 1 /\ calls[i - 1].ev = "call")
       /\ calls[i].ev = "insert" =>
            (i > 1 /\ calls[i - 1].ev = "return" /\ calls[i - 1].phase = "conclusion")
  /\ (pending # NoCall) <=> (calls # <<>> /\ calls[Len(calls)].ev = "call")
  /\ pc = "body" => pending = [fn |-> "generate_body",
                               text |-> section_prompt(rq.node_groups[calls[Len(calls)].k])]

\* a request on two groups has ended with a stored report
C9_Witness ==
  /\ pc = "done" /\ resp.status = 200
  /\ Len(rq.node_groups) = 2
  /\ CallSeq = ExpectedCalls(2)

\* C10 (as claimed): every generation call is issued after the clustering.
C10_Original ==
  \A i \in DOMAIN calls :
     calls[i].ev = "call" => \E j \in 1..(i - 1) : calls[j].ev = "cluster"

\* C10 (amended): the clustering is done right after the introduction call has
\* returned, and every body call and the conclusion call are issued after it.
C10_ClusterBeforeBody ==
  \A i \in DOMAIN calls :
     /\ calls[i].ev = "cluster" =>
          (i > 1 /\ calls[i - 1].ev = "return" /\ calls[i - 1].phase = "introduction")
     /\ (calls[i].ev = "call" /\ calls[i].phase # "introduction")
          => \E j \in 1..(i - 1) : calls[j].ev = "cluster" /\ calls[j].phase = "ok"

\* a body call has been issued
C10_Witness == Logged("call", "body") # <<>>

\* the group holds a node with a non-empty summary
HasSummarizedContent(group) == \E j \in DOMAIN group : Truthy(NodeById(group[j]).summary)

RECURSIVE KeptSections(_)
\* of the first k sections, those of the groups with summarized content whose call
\* returned a non-empty text, in order
KeptSections(k) ==
  IF k = 0 THEN <<>>
  ELSE IF HasSummarizedContent(rq.node_groups[k]) /\ Truthy(rq.sections[k])
       THEN Append(KeptSections(k - 1), rq.sections[k])
       ELSE KeptSections(k - 1)

\* C16 (as claimed): the body of the report a request has stored is made of the
\* sections of the groups that have summarized content and whose call returned a
\* non-empty text, in the order of the groups, with a blank line between two
\* sections, and of nothing else.
C16_BodyOfKeptSections ==
  (pc = "done" /\ resp.status = 200) =>
     LastReport.body = Join(KeptSections(Len(rq.sections)), <<"\n\n">>)

RECURSIVE Lines(_)
\* text.split("\n"): the lines of a text
Lines(text) ==
  IF \A i \in DOMAIN text : text[i] # "\n" THEN <<text>>
  ELSE LET cut == CHOOSE i \in DOMAIN text :
                     text[i] = "\n" /\ \A j \in 1..(i - 1) : text[j] # "\n"
       IN <<SubSeq(text, 1, cut - 1)>> \o Lines(SubSeq(text, cut + 1, Len(text)))

\* the text is the instruction, a blank line and then the given lines, one per line
IsPromptOf(text, instruction, lines) ==
  /\ Len(text) >= 2
  /\ SubSeq(text, 1, 2) = <<instruction, "\n\n">>
  /\ IF lines = <<>> THEN Len(text) = 2
     ELSE Lines(SubSeq(text, 3, Len(text))) = lines

\* the subjects of the whiteboard that hold a non-empty summary, by increasing id
SummarizedSubjects(w) ==
  RowsById({x \in subjects : x.whiteboard_id = w /\ x.summary # None /\ x.summary # <<>>})

\* C19: the text of the introduction call is the instruction followed by one line
\* "<name>: <summary>" for each subject of the requested whiteboard that holds a
\* non-empty summary, in the order of the subject list, and by nothing else: a
\* subject without summary or with an empty one, or of another whiteboard, gives
\* no line.
C19_IntroductionInput ==
  pc = "introduction" =>
     /\ pending.fn = "generate_introduction"
     /\ IsPromptOf(pending.text,
                   "Create an introduction for a report summarizing the following topics:",
                   [i \in DOMAIN SummarizedSubjects(rq.whiteboard_id) |->
                      SummarizedSubjects(rq.whiteboard_id)[i].name \o <<": ">>
                        \o SummarizedSubjects(rq.whiteboard_id)[i].summary])

\* the introduction call of a whiteboard with two summarized subjects is in flight
C19_Witness ==
  /\ pc = "introduction"
  /\ Len(SummarizedSubjects(rq.whiteboard_id)) = 2

\* the lines "<name>: <summary>" of the nodes of the group that hold a non-empty
\* summary, in the order of the group
GroupLines(group) ==
  LET summarized == SelectSeq(group, LAMBDA id : NodeById(id).summary \notin {None, <<>>})
  IN [i \in DOMAIN summarized |->
        NodeById(summarized[i]).name \o <<": ">> \o NodeById(summarized[i]).summary]

\* C20 (as claimed): the text of the body call of a group is exactly the lines
\* "<name>: <summary>" of the nodes of the group that hold a non-empty summary, in
\* the order of the group, one per line.
C20_Original ==
  pc = "body" =>
     LET lines == GroupLines(rq.node_groups[calls[Len(calls)].k])
     IN IF lines = <<>> THEN pending.text = <<>> ELSE Lines(pending.text) = lines

\* C20 (amended): the text of the body call of a group is the instruction
\* "Summarize and explain the following concepts:", a blank line, and the lines
\* "<name>: <summary>" of the nodes of the group that hold a non-empty summary, in
\* the order of the group, one per line; the section of the group is what the
\* generation returns for that text and nothing else.
C20_SectionInput ==
  /\ pc = "body" =>
        /\ pending.fn = "generate_body"
        /\ IsPromptOf(pending.text, "Summarize and explain the following concepts:",
                      GroupLines(rq.node_groups[calls[Len(calls)].k]))
  /\ \A k \in DOMAIN rq.sections :
        rq.sections[k] \in LLMOutcomes(
           [fn |-> "generate_body",
            text |-> <<"Summarize and explain the following concepts:", "\n\n">>
                     \o Join(GroupLines(rq.node_groups[k]), <<"\n">>)])

\* the body call of the group of node1 (summary A) and node2 (summary B) has been
\* answered by a generation that repeats its input
C20_Witness ==
  /\ pc = "loop"
  /\ \E x \in subjects : x.whiteboard_id = rq.whiteboard_id /\ x.summary = <<"X">>
  /\ rq.node_groups = <<<<1, 2>>>>
  /\ rq.sections = <<<<"<generate_body>", "Summarize and explain the following concepts:", "\n\n",
                       "node1", ": ", "A", "\n", "node2", ": ", "B">>>>

\* a step that ends a request which had passed its two precondition checks
EndsAdmitted == pc \notin {"idle", "done"} /\ pc' = "done" /\ parked' = parked

\* the step is an insert that failed
InsertFails ==
  /\ pc = "save" /\ pc' = "done"
  /\ calls' = Append(calls, Event("insert", "SQLAlchemyError", 0, None))

\* C11 (as claimed): a request that has passed its precondition checks changes no
\* whiteboard, subject, node or connection and no report stored before, and (unless
\* the insert itself fails) ends having added exactly one report, owned by the
\* requested whiteboard.
C11_OneNewReport ==
  [][(pc \notin {"idle", "done"} /\ parked' = parked) =>
       /\ UNCHANGED <<whiteboards, subjects, nodes, connections>>
       /\ IsPrefix(reports, reports')
       /\ (EndsAdmitted /\ ~ InsertFails) =>
            /\ Len(Logged("insert", "save")') = 1
            /\ Len(reports') = Len(reports) + 1
            /\ reports'[Len(reports')].whiteboard_id = rq.whiteboard_id]_vars

\* C12: no step changes or removes a stored report: the reports table after a step
\* is the table before it, possibly with new rows at its end.
C12_AppendOnly == [][IsPrefix(reports, reports')]_vars

\* two reports are stored, and a node has got its summary since the first was made
C12_Witness ==
  /\ Len(reports) = 2
  /\ calls # <<>> /\ calls[Len(calls)] = Event("insert", "save", 0, None)
  /\ \E n \in nodes : n.id = 2 /\ n.summary # None

\* C13: when the insert fails, the request ends with a server error, the step leaves
\* every table as it was (no row of the request, whole or partial, is stored), and
\* nothing is stored for the request afterwards.
C13_InsertFailure ==
  /\ [][InsertFails => (resp'.status = 500 /\ dbvars' = dbvars)]_vars
  /\ [][(pc = "done" /\ parked' = parked) => (pc' = "idle" /\ dbvars' = dbvars)]_vars

\* the insert of a request has failed; the request has ended and no report is stored
C13_Witness ==
  /\ pc = "done" /\ resp = Response(500, "SQLAlchemyError")
  /\ Logged("insert", "SQLAlchemyError") # <<>>
  /\ rq.report_body # None /\ rq.report_body # <<>>
  /\ reports = <<>>

\* the requests in progress, the one of the running thread first
Requests == <<Running>> \o parked

\* every generation call of the request has returned a text, the request has ended
\* and its insert has not failed
AllCallsSucceeded(r) ==
  /\ r.pc = "done" /\ r.calls # <<>>
  /\ \A i \in DOMAIN r.calls : r.calls[i].ev = "return" => r.calls[i].result # None
  /\ \A i \in DOMAIN r.calls : r.calls[i] # Event("insert", "SQLAlchemyError", 0, None)

\* a stored report holds the texts of the request
OwnRow(r) ==
  \E i \in DOMAIN reports :
     /\ reports[i].whiteboard_id = r.rq.whiteboard_id
     /\ reports[i].introduction = r.rq.introduction
     /\ reports[i].body = r.rq.report_body
     /\ reports[i].conclusion = r.rq.conclusion

\* C14 (as claimed): of the requests running in several threads, each one that has
\* passed its precondition checks and whose generation calls have all succeeded has
\* stored one report, which holds the introduction, body and conclusion of that
\* request; a stored report has all its fields.
C14_OwnReportEach ==
  /\ \A i \in DOMAIN Requests :
       AllCallsSucceeded(Requests[i]) =>
          /\ Len(SelectSeq(Requests[i].calls, LAMBDA e : e.ev = "insert")) = 1
          /\ OwnRow(Requests[i])
  /\ \A i \in DOMAIN reports :
       DOMAIN reports[i] = {"id", "whiteboard_id", "title", "introduction", "body", "conclusion"}

\* the role framing of a generation call: the instruction message that the function
\* of LLMHelper puts in front of the text (llm.py 89 and 118)
RoleFraming(call) ==
  CASE call.fn = "generate_introduction" -> "You are an introduction generator..."
    [] call.fn = "generate_body" -> "Expand the user's input into a detailed report..."
    [] OTHER -> "none"

\* C21 (as claimed): the call of the conclusion phase is made with a role framing of
\* its own, which is not the one of the body sections, and on the introduction and
\* the body of the same request.
C21_ConclusionFraming ==
  pc = "conclusion" =>
     /\ RoleFraming(pending) # RoleFraming([fn |-> "generate_body", text |-> <<>>])
     /\ pending.text = <<"Based on this report:", "\n">> \o Fmt(rq.introduction) \o <<"\n\n">>
                         \o Fmt(rq.report_body) \o <<"\n\n", "Write a strong conclusion.">>

\* ---------------------------------------------- subjects (SpecSubjects)
SubjectsOf(w) == {x \in subjects : x.whiteboard_id = w}

\* C22 (as claimed): after any sequence of create_subject, update_subject and
\* delete_subject calls every whiteboard has at most one subject
C22_OneSubjectPerWhiteboard ==
  \A w \in whiteboards : Cardinality(SubjectsOf(w)) <= 1

\* ---------------------------------------------------- graph (SpecGraph)
StoredIds == {n.id : n \in nodes}

NoSelfConnection == \A c \in connections : c.source_node_id # c.target_node_id

NoDuplicatePair ==
  \A c, d \in connections :
    (c.source_node_id = d.source_node_id /\ c.target_node_id = d.target_node_id) => c = d

ConnectErrors ==
  {Response(404, "Source node not found"), Response(404, "Target node not found"),
   Response(400, "A node cannot connect to itself"), Response(400, "Connection already exists")}

\* C23: after any sequence of connect_node, delete_connection and delete_node calls
\* no stored connection links a node to itself and no two stored connections have
\* the same (source, target); a connection is stored only by a call that passes the
\* four tests, and a call answered with one of the four errors leaves the
\* connections as they were
C23_ConnectionRules ==
  /\ [](NoSelfConnection /\ NoDuplicatePair)
  /\ [][/\ \A c \in connections' \ connections :
              connect_node_error(c.source_node_id, c.target_node_id) = NoResp
        /\ (resp' # resp /\ resp' \in ConnectErrors) => connections' = connections]_vars

C23_Witness ==
  /\ resp = Response(400, "Connection already exists")
  /\ \E c \in connections : \E d \in connections : c.source_node_id = d.target_node_id

\* C25: after any sequence of create_node, connect_node, delete_connection and
\* delete_node calls both ends of every stored connection are stored nodes; a step
\* that removes a node removes exactly that node and the connections that start or
\* end at it, and a call answered "Node not found" changes neither table
C25_EndpointsExist ==
  /\ [](\A c \in connections : c.source_node_id \in StoredIds /\ c.target_node_id \in StoredIds)
  /\ [][/\ \A n \in nodes \ nodes' :
              n.id \notin {m.id : m \in nodes'} =>
                /\ nodes' = nodes \ {n}
                /\ connections' = {c \in connections :
                                     c.source_node_id # n.id /\ c.target_node_id # n.id}
        /\ (resp' # resp /\ resp' = Response(404, "Node not found")) =>
              (nodes' = nodes /\ connections' = connections)]_vars

C25_Witness ==
  /\ resp = Response(200, "Node and its connections were successfully deleted")
  /\ seq.nodes = 3 /\ Cardinality(nodes) = 2
  /\ connections # {}

WhiteboardOf(node_id) == {n.whiteboard_id : n \in {m \in nodes : m.id = node_id}}

\* C26 (as claimed): after any sequence of API operations every connection links
\* two nodes of the same whiteboard, and the clustering of generate_report never
\* meets a node id that is not in its node list
C26_SameWhiteboard ==
  /\ \A c \in connections : WhiteboardOf(c.source_node_id) = WhiteboardOf(c.target_node_id)
  /\ Logged("cluster", "KeyError") = <<>>

\* --------------------------------------------- concurrent connect_node (SpecRace)
\* C24 (as claimed): when two connect_node requests for the same (source, target)
\* run concurrently, in no interleaving of their tests and their inserts do two
\* connections with the same (source, target) end up stored
C24_OneConnectionPerPair == NoDuplicatePair

\* ---------------------------------------------------------- zoom (SpecZoom)
InRange(v) == ~ Less(v, MinScale) /\ ~ Less(MaxScale, v) /\ v # NaN

\* C28 (as claimed): after any sequence of update_zoom calls, custom with any scale
\* value included, the scale of a whiteboard that has one is within [0.5, 2.0]
C28_ScaleInRange ==
  \A w \in whiteboards : scale[w] # NullScale => InRange(scale[w][1])

\* ------------------------------------------ termination (SpecCluster)
\* the nodes of the groups before group g
EarlierNodes(groups, g) == UNION {SeqToSet(groups[h]) : h \in 1..(g - 1)}

====
